---- MODULE Spec2Model ----
(***************************************************************************)
(* DRSB.py: a command-line script that opens an image, flips it top-bottom *)
(* and left-right, resizes it (unless --original), draws a centred         *)
(* crosshair and saves it.  The model follows main() and process_image()   *)
(* statement by statement.  Strings the program inspects (paths, the       *)
(* --sizing value) are sequences of one-character strings, and the string  *)
(* functions of the Python library the script calls (posixpath, str.split, *)
(* int) are operators computed the way the library computes them.          *)
(***************************************************************************)
EXTENDS Integers, Sequences, FiniteSets, TLC

(* ------------------------------ bounds --------------------------------- *)
\* longest --sizing value enumerated exhaustively over SizingChars
MaxSizingLen == 4
\* longest input path enumerated exhaustively over PathChars
MaxPathLen == 4
\* largest width and height of the enumerated source images
MaxDim == 3

(* --------------------------- string helpers ---------------------------- *)
\* all sequences over S of length 0..n
RECURSIVE SeqsUpTo(_, _)
SeqsUpTo(S, n) ==
    IF n = 0 THEN {<<>>}
    ELSE LET shorter == SeqsUpTo(S, n - 1)
         IN  shorter \cup {Append(s, c) : s \in {t \in shorter : Len(t) = n - 1}, c \in S}

\* s[a..b] (1-based, inclusive), empty when a > b
Slice(s, a, b) == [i \in 1..(b - a + 1) |-> s[a + i - 1]]

\* str.rfind(c) + 1: the 1-based index of the last c in s, 0 when there is none
RFind(s, c) ==
    LET hits == {i \in 1..Len(s) : s[i] = c}
    IN  IF hits = {} THEN 0 ELSE CHOOSE i \in hits : \A j \in hits : j <= i

\* str.rstrip(c)
RStrip(s, c) ==
    LET keep == {i \in 1..Len(s) : s[i] # c}
    IN  IF keep = {} THEN <<>>
        ELSE Slice(s, 1, CHOOSE i \in keep : \A j \in keep : j <= i)

\* str.lower() on the characters the model enumerates
LowerChar(c) == IF c = "X" THEN "x" ELSE IF c = "A" THEN "a" ELSE c
Lower(s) == [i \in 1..Len(s) |-> LowerChar(s[i])]

\* str.replace(c, "")
RECURSIVE Remove(_, _)
Remove(s, c) ==
    IF s = <<>> THEN <<>>
    ELSE IF Head(s) = c THEN Remove(Tail(s), c)
    ELSE <<Head(s)>> \o Remove(Tail(s), c)

\* str.split(sep) for a one-character separator: always at least one part
RECURSIVE Split(_, _)
Split(s, sep) ==
    LET hits == {i \in 1..Len(s) : s[i] = sep}
    IN  IF hits = {} THEN <<s>>
        ELSE LET i == CHOOSE k \in hits : \A j \in hits : k <= j
             IN  <<Slice(s, 1, i - 1)>> \o Split(Slice(s, i + 1, Len(s)), sep)

Digits == <<"0", "1", "2", "3", "4", "5", "6", "7", "8", "9">>
IsDigit(c) == \E d \in 1..10 : Digits[d] = c
DigitVal(c) == (CHOOSE d \in 1..10 : Digits[d] = c) - 1

\* int(s) raises ValueError unless s is an optional sign followed by digits
\* (spaces were removed before; the enumerated characters hold no underscore)
IntBody(s) == IF s # <<>> /\ Head(s) \in {"-", "+"} THEN Tail(s) ELSE s
IsInt(s) == IntBody(s) # <<>> /\ \A i \in 1..Len(IntBody(s)) : IsDigit(IntBody(s)[i])

RECURSIVE Magnitude(_)
Magnitude(s) ==
    IF s = <<>> THEN 0
    ELSE 10 * Magnitude(Slice(s, 1, Len(s) - 1)) + DigitVal(s[Len(s)])

\* int(s), for s with IsInt(s)
Int_(s) == IF Head(s) = "-" THEN 0 - Magnitude(IntBody(s)) ELSE Magnitude(IntBody(s))

(* ----------------------------- posixpath ------------------------------- *)
AllSlashes(s) == \A i \in 1..Len(s) : s[i] = "/"

\* os.path.dirname
dirname(p) ==
    LET head == Slice(p, 1, RFind(p, "/"))
    IN  IF head # <<>> /\ ~AllSlashes(head) THEN RStrip(head, "/") ELSE head

\* os.path.basename
basename(p) == Slice(p, RFind(p, "/") + 1, Len(p))

\* os.path.splitext: the extension starts at the last dot of the last
\* component, unless only dots precede it in that component
splitext(p) ==
    LET sepIndex == RFind(p, "/")
        dotIndex == RFind(p, ".")
    IN  IF dotIndex > sepIndex
           /\ \E k \in (sepIndex + 1)..(dotIndex - 1) : p[k] # "."
        THEN <<Slice(p, 1, dotIndex - 1), Slice(p, dotIndex, Len(p))>>
        ELSE <<p, <<>>>>

\* os.path.join(a, b) for two components
join(a, b) ==
    IF b # <<>> /\ Head(b) = "/" THEN b
    ELSE IF a = <<>> \/ a[Len(a)] = "/" THEN a \o b
    ELSE a \o <<"/">> \o b

(* ------------------------------ images --------------------------------- *)
\* Image.FLIP_LEFT_RIGHT and Image.FLIP_TOP_BOTTOM, the methods of transpose
FLIP_LEFT_RIGHT == 0
FLIP_TOP_BOTTOM == 1

\* An image is the size of the decoded source plus the operations applied to
\* it so far, in order; its pixels are read with PixelAt.  A source pixel is
\* tagged with its own coordinates, so every move of a pixel is visible.
NoImg == [src |-> <<0, 0>>, ops |-> <<>>]
BLACK == <<"black", 0, 0>>

\* Image.open: the decoded source, nothing applied yet
Open(size) == [src |-> size, ops |-> <<>>]

\* mutant of Transpose: the method is ignored, every flip is left-right
Transpose_OneAxis(im, method) ==
    [im EXCEPT !.ops = Append(@, [op |-> "transpose",
                                  arg |-> <<FLIP_LEFT_RIGHT, 0, 0, 0>>])]

\* Image.transpose(method)
Transpose(im, method) ==
    [im EXCEPT !.ops = Append(@, [op |-> "transpose", arg |-> <<method, 0, 0, 0>>])]

\* Image.resize((w, h), LANCZOS)
Resize(im, w, h) ==
    [im EXCEPT !.ops = Append(@, [op |-> "resize", arg |-> <<w, h, 0, 0>>])]

\* ImageDraw.line([(x0, y0), (x1, y1)], fill='black', width=1)
Line(im, x0, y0, x1, y1) ==
    [im EXCEPT !.ops = Append(@, [op |-> "line", arg |-> <<x0, y0, x1, y1>>])]

\* img.size after the first k operations: only resize changes it
RECURSIVE SizeAfter(_, _)
SizeAfter(im, k) ==
    IF k = 0 THEN im.src
    ELSE IF im.ops[k].op = "resize" THEN <<im.ops[k].arg[1], im.ops[k].arg[2]>>
    ELSE SizeAfter(im, k - 1)

Size(im) == SizeAfter(im, Len(im.ops))

Between(v, a, b) == (a <= v /\ v <= b) \/ (b <= v /\ v <= a)

\* the pixels a 1-wide axis-aligned line covers: both end points included,
\* whatever falls outside the image is clipped
OnLine(arg, x, y) ==
    \/ arg[2] = arg[4] /\ y = arg[2] /\ Between(x, arg[1], arg[3])
    \/ arg[1] = arg[3] /\ x = arg[1] /\ Between(y, arg[2], arg[4])

\* the pixel at (x, y) after the first k operations
RECURSIVE PixelAt(_, _, _, _)
PixelAt(im, k, x, y) ==
    IF k = 0 THEN <<"src", x, y>>
    ELSE LET o == im.ops[k]
             sz == SizeAfter(im, k - 1)
         IN  CASE o.op = "transpose" ->
                    IF o.arg[1] = FLIP_TOP_BOTTOM
                    THEN PixelAt(im, k - 1, x, sz[2] - 1 - y)
                    ELSE PixelAt(im, k - 1, sz[1] - 1 - x, y)
               [] o.op = "resize" ->
                    \* resize to the size the image already has returns a copy;
                    \* otherwise every pixel is a resampled value
                    IF sz = <<o.arg[1], o.arg[2]>>
                    THEN PixelAt(im, k - 1, x, y)
                    ELSE <<"lanczos", x, y>>
               [] OTHER ->
                    IF OnLine(o.arg, x, y) THEN BLACK ELSE PixelAt(im, k - 1, x, y)

Pixel(im, x, y) == PixelAt(im, Len(im.ops), x, y)

(* ------------------------------- state --------------------------------- *)
VARIABLES
    argv,           \* the command line, as argparse reads it
    fs,             \* the files on disk: a set of [path, img]
    pc,             \* the statement main() is at
    args,           \* the namespace parse_args returned
    output_path,    \* main: output_path
    custom_size,    \* main: custom_size (<<>> is None)
    size_mode,      \* main: size_mode
    img,            \* process_image: img
    original_size,  \* process_image: (original_width, original_height)
    px,             \* process_image: (width_px, height_px)
    stdout,         \* the lines printed to standard output
    stderr,         \* the lines argparse printed to standard error
    ret             \* the exit status of the process, -1 while it runs

vars == <<argv, fs, pc, args, output_path, custom_size, size_mode, img,
          original_size, px, stdout, stderr, ret>>

None == [some |-> FALSE, s |-> <<>>]
Some(s) == [some |-> TRUE, s |-> s]
Opt(S) == {None} \cup {Some(s) : s \in S}

OUTPUT_PNG == <<"o", "u", "t", "p", "u", "t", ".", "p", "n", "g">>
DRSB == <<"_", "D", "R", "S", "B">>
PNG == <<".", "p", "n", "g">>

NoArgs == [input_image |-> <<>>, output |-> <<>>, original |-> FALSE,
           small |-> FALSE, smallest |-> FALSE, sizing |-> None]

Msg(kind, path, size) == [kind |-> kind, path |-> path, size |-> size]

exists(path) == \E f \in fs : f.path = path
FileAt(path) == CHOOSE f \in fs : f.path = path

(* ------------------------------- main() -------------------------------- *)
\* line 68, parse_args with -h on the command line: argparse prints the help
\* and raises SystemExit(0)
ParseArgsHelp ==
    /\ pc = "parse_args"
    /\ argv.help
    /\ stdout' = Append(stdout, Msg("help", <<>>, <<>>))
    /\ ret' = 0
    /\ pc' = "exit"
    /\ UNCHANGED <<argv, fs, args, output_path, custom_size, size_mode, img,
                   original_size, px, stderr>>

\* line 68, parse_args without the required positional or with an argument it
\* does not know: argparse prints the usage and raises SystemExit(2)
ParseArgsError ==
    /\ pc = "parse_args"
    /\ ~argv.help
    /\ argv.unknown \/ ~argv.input_image.some
    /\ stderr' = Append(stderr, Msg("usage", <<>>, <<>>))
    /\ ret' = 2
    /\ pc' = "exit"
    /\ UNCHANGED <<argv, fs, args, output_path, custom_size, size_mode, img,
                   original_size, px, stdout>>

\* lines 56-68: the namespace of an accepted command line; -o defaults to
\* "output.png", --sizing to None
ParseArgs ==
    /\ pc = "parse_args"
    /\ ~argv.help /\ ~argv.unknown /\ argv.input_image.some
    /\ args' = [input_image |-> argv.input_image.s,
                output |-> IF argv.o.some THEN argv.o.s ELSE OUTPUT_PNG,
                original |-> argv.original,
                small |-> argv.small,
                smallest |-> argv.smallest,
                sizing |-> argv.sizing]
    /\ pc' = "exists"
    /\ UNCHANGED <<argv, fs, output_path, custom_size, size_mode, img,
                   original_size, px, stdout, stderr, ret>>

\* mutant of InputNotFound: the existence check is missing
InputNotFound_Unchecked ==
    /\ pc = "exists"
    /\ ~exists(args.input_image)
    /\ output_path' = args.output
    /\ pc' = "sizing"
    /\ UNCHANGED <<argv, fs, args, custom_size, size_mode, img, original_size,
                   px, stdout, stderr, ret>>

\* lines 71-73
InputNotFound ==
    /\ pc = "exists"
    /\ ~exists(args.input_image)
    /\ stdout' = Append(stdout, Msg("not found", args.input_image, <<>>))
    /\ ret' = 1
    /\ pc' = "exit"
    /\ UNCHANGED <<argv, fs, args, output_path, custom_size, size_mode, img,
                   original_size, px, stderr>>

\* mutant of DerivedPath: the directory of the input is dropped
DerivedPath_NoDir(input_image) ==
    LET in_base == basename(input_image)
        stem == splitext(in_base)[1]
        ext == splitext(in_base)[2]
    IN  stem \o DRSB \o (IF ext = <<>> THEN PNG ELSE ext)

\* mutant of DerivedPath: the _DRSB suffix is dropped
DerivedPath_NoSuffix(input_image) ==
    LET in_dir == dirname(input_image)
        in_base == basename(input_image)
        stem == splitext(in_base)[1]
        ext == splitext(in_base)[2]
    IN  join(in_dir, stem \o (IF ext = <<>> THEN PNG ELSE ext))

\* lines 78-84: the output path derived from the input path
DerivedPath(input_image) ==
    LET in_dir == dirname(input_image)
        in_base == basename(input_image)
        stem == splitext(in_base)[1]
        ext == splitext(in_base)[2]
    IN  join(in_dir, stem \o DRSB \o (IF ext = <<>> THEN PNG ELSE ext))

\* lines 76-84
ResolveOutput(a) ==
    IF a.output = OUTPUT_PNG THEN DerivedPath(a.input_image) ELSE a.output

\* lines 71, 76-84
OutputPath ==
    /\ pc = "exists"
    /\ exists(args.input_image)
    /\ output_path' = ResolveOutput(args)
    /\ pc' = "sizing"
    /\ UNCHANGED <<argv, fs, args, custom_size, size_mode, img, original_size,
                   px, stdout, stderr, ret>>

\* lines 89-93: the parts of the --sizing value
SizingParts(sizing) ==
    LET s == Remove(Lower(sizing), " ")
    IN  IF \E i \in 1..Len(s) : s[i] = "x" THEN Split(s, "x") ELSE Split(s, ",")

\* lines 88-108: what the --sizing block does with args.sizing:
\* "skip" (the block is not entered), "ok", "positive" or "form" (an error)
SizingOutcome(sizing) ==
    IF ~sizing.some \/ sizing.s = <<>> THEN "skip"
    ELSE LET parts == SizingParts(sizing.s)
         IN  IF Len(parts) # 2 THEN "form"
             ELSE IF ~IsInt(parts[1]) \/ ~IsInt(parts[2]) THEN "form"
             ELSE IF Int_(parts[1]) > 0 /\ Int_(parts[2]) > 0 THEN "ok"
             ELSE "positive"

\* lines 96-99
CustomSize(sizing) ==
    LET parts == SizingParts(sizing.s)
    IN  <<Int_(parts[1]), Int_(parts[2])>>

\* mutant of SizeMode: --smallest is tested before --original
SizeMode_SmallestFirst(a, custom) ==
    IF custom # <<>> THEN "custom"
    ELSE IF a.smallest THEN "smallest"
    ELSE IF a.original THEN "original"
    ELSE "small"

\* lines 110-117
SizeMode(a, custom) ==
    IF custom # <<>> THEN "custom"
    ELSE IF a.original THEN "original"
    ELSE IF a.smallest THEN "smallest"
    ELSE "small"

\* lines 87-108, an error branch: one message, return 1
SizingInvalid ==
    /\ pc = "sizing"
    /\ SizingOutcome(args.sizing) \in {"form", "positive"}
    /\ stdout' = Append(stdout, Msg(SizingOutcome(args.sizing), <<>>, <<>>))
    /\ ret' = 1
    /\ pc' = "exit"
    /\ UNCHANGED <<argv, fs, args, output_path, custom_size, size_mode, img,
                   original_size, px, stderr>>

\* lines 87-117: custom_size and size_mode
Sizing ==
    /\ pc = "sizing"
    /\ SizingOutcome(args.sizing) \in {"skip", "ok"}
    /\ LET custom == IF SizingOutcome(args.sizing) = "ok"
                     THEN CustomSize(args.sizing) ELSE <<>>
       IN  /\ custom_size' = custom
           /\ size_mode' = SizeMode(args, custom)
    /\ pc' = "open"
    /\ UNCHANGED <<argv, fs, args, output_path, img, original_size, px,
                   stdout, stderr, ret>>

(* --------------------------- process_image() --------------------------- *)
\* lines 18-19
OpenImage ==
    /\ pc = "open"
    /\ exists(args.input_image)
    /\ FileAt(args.input_image).img # NoImg
    /\ img' = Open(Size(FileAt(args.input_image).img))
    /\ original_size' = Size(FileAt(args.input_image).img)
    /\ pc' = "flip_tb"
    /\ UNCHANGED <<argv, fs, args, output_path, custom_size, size_mode, px,
                   stdout, stderr, ret>>

\* line 22
FlipTopBottom ==
    /\ pc = "flip_tb"
    /\ img' = Transpose(img, FLIP_TOP_BOTTOM)
    /\ pc' = "flip_lr"
    /\ UNCHANGED <<argv, fs, args, output_path, custom_size, size_mode,
                   original_size, px, stdout, stderr, ret>>

\* line 23
FlipLeftRight ==
    /\ pc = "flip_lr"
    /\ img' = Transpose(img, FLIP_LEFT_RIGHT)
    /\ pc' = "resize"
    /\ UNCHANGED <<argv, fs, args, output_path, custom_size, size_mode,
                   original_size, px, stdout, stderr, ret>>

SMALL == <<576, 720>>
SMALLEST == <<300, 420>>

\* mutant of FinalSize: the default branch carries the "smallest" numbers
FinalSize_SmallIsSmallest(mode, sizing, original) ==
    IF sizing # <<>> THEN sizing
    ELSE IF mode = "original" THEN original
    ELSE SMALLEST

\* lines 26-37: (width_px, height_px)
FinalSize(mode, sizing, original) ==
    IF sizing # <<>> THEN sizing
    ELSE IF mode = "original" THEN original
    ELSE IF mode = "smallest" THEN SMALLEST
    ELSE SMALL

\* lines 26-37: the image after the branch; only "original" does not resize
Resized(im, mode, sizing, original) ==
    IF sizing = <<>> /\ mode = "original" THEN im
    ELSE Resize(im, FinalSize(mode, sizing, original)[1],
                    FinalSize(mode, sizing, original)[2])

\* lines 26-37
DetermineSize ==
    /\ pc = "resize"
    /\ px' = FinalSize(size_mode, custom_size, original_size)
    /\ img' = Resized(img, size_mode, custom_size, original_size)
    /\ pc' = "draw"
    /\ UNCHANGED <<argv, fs, args, output_path, custom_size, size_mode,
                   original_size, stdout, stderr, ret>>

\* mutant of Center: the centre is rounded up
Center_RoundUp(size) == <<(size[1] + 1) \div 2, (size[2] + 1) \div 2>>

\* lines 41-42
Center(size) == <<size[1] \div 2, size[2] \div 2>>

\* lines 40-46
Crosshair(im, size) ==
    LET center_x == Center(size)[1]
        center_y == Center(size)[2]
    IN  Line(Line(im, 0, center_y, size[1], center_y),
             center_x, 0, center_x, size[2])

\* lines 40-46
DrawCrosshairs ==
    /\ pc = "draw"
    /\ img' = Crosshair(img, px)
    /\ pc' = "save"
    /\ UNCHANGED <<argv, fs, args, output_path, custom_size, size_mode,
                   original_size, px, stdout, stderr, ret>>

\* the disk after a file is written at path
Written(path, content) ==
    {f \in fs : f.path # path} \cup {[path |-> path, img |-> content]}

\* lines 49-50 and 122: save, the status line, return 0
Save ==
    /\ pc = "save"
    /\ fs' = Written(output_path, img)
    /\ stdout' = Append(stdout, Msg("saved", output_path, px))
    /\ ret' = 0
    /\ pc' = "exit"
    /\ UNCHANGED <<argv, args, output_path, custom_size, size_mode, img,
                   original_size, px, stderr>>

\* lines 18-49 raising inside the try of line 120: the decode (always, when
\* the input is no image), a transform or the encode fails
Raise ==
    /\ pc \in {"open", "flip_tb", "flip_lr", "resize", "draw", "save"}
    /\ pc' = "except"
    /\ UNCHANGED <<argv, fs, args, output_path, custom_size, size_mode, img,
                   original_size, px, stdout, stderr, ret>>

\* mutant of Except: the message is printed and the return 1 is missing, so
\* main returns None and exit(None) ends the process with status 0
Except_NoReturn ==
    /\ pc = "except"
    /\ stdout' = Append(stdout, Msg("processing", <<>>, <<>>))
    /\ ret' = 0
    /\ pc' = "exit"
    /\ UNCHANGED <<argv, fs, args, output_path, custom_size, size_mode, img,
                   original_size, px, stderr>>

\* lines 123-125
Except ==
    /\ pc = "except"
    /\ stdout' = Append(stdout, Msg("processing", <<>>, <<>>))
    /\ ret' = 1
    /\ pc' = "exit"
    /\ UNCHANGED <<argv, fs, args, output_path, custom_size, size_mode, img,
                   original_size, px, stderr>>

Next ==
    \/ ParseArgsHelp
    \/ ParseArgsError
    \/ ParseArgs
    \/ InputNotFound
    \/ OutputPath
    \/ SizingInvalid
    \/ Sizing
    \/ OpenImage
    \/ FlipTopBottom
    \/ FlipLeftRight
    \/ DetermineSize
    \/ DrawCrosshairs
    \/ Save
    \/ Raise
    \/ Except

(* ------------------------- command lines and Init ----------------------- *)
PathChars == {"a", ".", "/"}
SizingChars == {"0", "1", "x", "X", ",", " ", "-", "a"}

PHOTO_JPG == <<"p", "h", "o", "t", "o", ".", "j", "p", "g">>
DIR_IMG == <<"d", "/", "i", "m", "g">>
OUT_PNG == <<"o", ".", "p", "n", "g">>

S_800x600 == <<"8", "0", "0", "x", "6", "0", "0">>
S_800c600 == <<"8", "0", "0", ",", "6", "0", "0">>
S_0x10 == <<"0", "x", "1", "0">>
S_abc_x10 == <<"a", "b", "c", " ", "x", "1", "0">>
S_10 == <<"1", "0">>
S_3c2 == <<"3", ",", "2">>
S_2x3 == <<"2", "x", "3">>
S_301x2 == <<"3", "0", "1", "x", "2">>
S_576x720 == <<"5", "7", "6", "x", "7", "2", "0">>

Cmd(input, o, original, small, smallest, sizing) ==
    [input_image |-> input, o |-> o, original |-> original, small |-> small,
     smallest |-> smallest, sizing |-> sizing, help |-> FALSE, unknown |-> FALSE]

\* the source images: every size up to MaxDim x MaxDim
Sizes == (1..MaxDim) \X (1..MaxDim)

\* command lines that take main() down every path, part of every Init below
CoreCmds ==
    {[Cmd(Some(PHOTO_JPG), None, FALSE, FALSE, FALSE, None) EXCEPT !.help = TRUE],
     [Cmd(Some(PHOTO_JPG), None, FALSE, FALSE, FALSE, None) EXCEPT !.unknown = TRUE],
     Cmd(None, None, FALSE, FALSE, FALSE, None)}
    \cup {Cmd(Some(PHOTO_JPG), None, FALSE, FALSE, FALSE, s) :
            s \in Opt({S_0x10, S_10, S_3c2})}

\* every flag combination, with and without -o, with valid and invalid --sizing
GeneralCmds ==
    {Cmd(Some(i), o, original, small, smallest, s) :
        i \in {PHOTO_JPG, DIR_IMG},
        o \in Opt({OUT_PNG, OUTPUT_PNG, PHOTO_JPG}),
        original \in BOOLEAN, small \in BOOLEAN, smallest \in BOOLEAN,
        s \in Opt({<<>>, S_800x600, S_3c2, S_576x720, S_0x10, S_10})}

\* every --sizing value of up to MaxSizingLen characters, and the named ones
SizingCmds ==
    {Cmd(Some(PHOTO_JPG), None, FALSE, FALSE, FALSE, Some(s)) :
        s \in SeqsUpTo(SizingChars, MaxSizingLen)
              \cup {S_800x600, S_800c600, S_0x10, S_abc_x10, S_10, S_3c2, S_2x3}}

\* every input path of up to MaxPathLen characters, with and without -o
PathCmds ==
    {Cmd(Some(i), o, TRUE, FALSE, FALSE, None) :
        i \in SeqsUpTo(PathChars, MaxPathLen) \cup {PHOTO_JPG, DIR_IMG, OUTPUT_PNG},
        o \in Opt({OUT_PNG, OUTPUT_PNG})}
    \cup {Cmd(Some(i), Some(i), TRUE, FALSE, FALSE, None) :
            i \in SeqsUpTo(PathChars, MaxPathLen)}

\* every size mode on every source image
PixelCmds ==
    {Cmd(Some(PHOTO_JPG), None, original, FALSE, smallest, s) :
        original \in BOOLEAN, smallest \in BOOLEAN,
        s \in Opt({S_3c2, S_2x3, S_301x2})}

\* a path that can only name a directory
NamesDirectory(p) ==
    \/ p[Len(p)] = "/"
    \/ basename(p) \in {<<".">>, <<".", ".">>}

\* the disk a command line can meet: the input is missing, or it is there and
\* cannot be decoded (a directory, or a file that is no image: NoImg), or it
\* is a file holding an image of one of the sizes; the empty path names nothing
Disks(c, sizes) ==
    IF c.help \/ c.unknown \/ ~c.input_image.some \/ c.input_image.s = <<>>
    THEN {{}}
    ELSE {{}, {[path |-> c.input_image.s, img |-> NoImg]}}
         \cup IF NamesDirectory(c.input_image.s) THEN {}
              ELSE {{[path |-> c.input_image.s, img |-> Open(sz)]} : sz \in sizes}

InitFrom(cmds, sizes) ==
    /\ argv \in cmds
    /\ fs \in Disks(argv, sizes)
    /\ pc = "parse_args"
    /\ args = NoArgs
    /\ output_path = <<>>
    /\ custom_size = <<>>
    /\ size_mode = ""
    /\ img = NoImg
    /\ original_size = <<0, 0>>
    /\ px = <<0, 0>>
    /\ stdout = <<>>
    /\ stderr = <<>>
    /\ ret = -1

Init == InitFrom(CoreCmds \cup GeneralCmds, Sizes \cup {SMALL})
InitSizing == InitFrom(CoreCmds \cup SizingCmds, {<<2, 3>>})
InitPath == InitFrom(CoreCmds \cup PathCmds, {<<2, 3>>})
InitPixel == InitFrom(CoreCmds \cup PixelCmds, Sizes)

Spec == Init /\ [][Next]_vars
SpecSizing == InitSizing /\ [][Next]_vars
SpecPath == InitPath /\ [][Next]_vars
SpecPixel == InitPixel /\ [][Next]_vars

(* ------------------------------- claims -------------------------------- *)
\* main() returned or the process exited
Exited == pc = "exit"
\* parse_args accepted the command line
Parsed == args # NoArgs
\* process_image ran to completion: the file is saved, the status line printed
Completed ==
    /\ Exited
    /\ stdout # <<>>
    /\ stdout[Len(stdout)].kind = "saved"
\* the image in the file at the output path
Output == FileAt(output_path).img

\* C1: a completed run saves an image whose dimensions are those of the size
\* directive process_image was given: the source's under "original", 576x720
\* under "small", 300x420 under "smallest", (w, h) under a custom sizing; the
\* status line reports the same dimensions.
C1_OutputDimensions ==
    Completed =>
        /\ exists(output_path)
        /\ custom_size # <<>> => Size(Output) = custom_size
        /\ (custom_size = <<>> /\ size_mode = "original") => Size(Output) = original_size
        /\ (custom_size = <<>> /\ size_mode = "small") => Size(Output) = <<576, 720>>
        /\ (custom_size = <<>> /\ size_mode = "smallest") => Size(Output) = <<300, 420>>
        /\ stdout[Len(stdout)].size = Size(Output)

\* C1 witness: a completed default run on a source that is already 576x720
C1_Witness ==
    /\ Completed
    /\ size_mode = "small"
    /\ original_size = <<576, 720>>
    /\ Size(Output) = <<576, 720>>

\* the resize operations applied to an image
Resizes(im) == {k \in 1..Len(im.ops) : im.ops[k].op = "resize"}

\* C2: whatever flags are passed together, one directive is applied, chosen by
\* sizing > original > smallest > small: a completed run saves the custom size
\* when --sizing was valid, else the source size under --original, else
\* 300x420 under --smallest, else 576x720, and resizes at most once.
C2_Precedence ==
    Completed =>
        /\ Cardinality(Resizes(Output)) <= 1
        /\ Size(Output) =
            IF custom_size # <<>> THEN custom_size
            ELSE IF argv.original THEN original_size
            ELSE IF argv.smallest THEN <<300, 420>>
            ELSE <<576, 720>>

\* C2 witness: --original --smallest --small together without --sizing
C2_Witness ==
    /\ Completed
    /\ argv.original /\ argv.smallest /\ argv.small
    /\ ~argv.sizing.some
    /\ Size(Output) = original_size
    /\ original_size # <<576, 720>>

\* a --sizing value the claim calls invalid: not exactly two parts, a part
\* that is no integer, or a part that is not strictly positive
InvalidSizing(s) ==
    LET parts == SizingParts(s)
    IN  \/ Len(parts) # 2
        \/ \E i \in 1..2 : ~IsInt(parts[i])
        \/ \E i \in 1..2 : Int_(parts[i]) <= 0

\* C3 (as claimed): whenever the input exists and --sizing carries an invalid
\* value, main returns 1 with one error message about --sizing, process_image
\* is never called and nothing is written.
C3_InvalidSizingFails ==
    (Exited /\ Parsed /\ exists(args.input_image)
        /\ args.sizing.some /\ InvalidSizing(args.sizing.s)) =>
        /\ ret = 1
        /\ Len(stdout) = 1
        /\ stdout[1].kind \in {"form", "positive"}
        /\ img = NoImg
        /\ \A f \in fs : f.img.ops = <<>>

\* C4 (as claimed): whenever -o <path> is given, a completed run has written
\* the result to exactly that path.
C4_ExplicitOutputHonoured ==
    (Completed /\ argv.o.some) =>
        /\ output_path = argv.o.s
        /\ exists(argv.o.s)
        /\ FileAt(argv.o.s).img = img

\* the extension of a base name, as the claim describes it: from the last dot
\* on, when a character other than a dot precedes that dot
ExtOf(base) ==
    LET dots == {i \in 1..Len(base) : base[i] = "."}
        last == CHOOSE i \in dots : \A j \in dots : j <= i
    IN  IF dots # {} /\ \E j \in 1..(last - 1) : base[j] # "."
        THEN Slice(base, last, Len(base))
        ELSE <<>>
StemOf(base) == Slice(base, 1, Len(base) - Len(ExtOf(base)))

\* C5: without -o the output path lies in the directory of the input and is
\* named <stem>_DRSB<ext>, stem and ext being the input base name split at its
\* extension and ext being ".png" when the input has none; photo.jpg gives
\* photo_DRSB.jpg.
C5_DerivedOutputPath ==
    (Parsed /\ ~argv.o.some /\ output_path # <<>>) =>
        LET base == basename(args.input_image)
        IN  /\ dirname(output_path) = dirname(args.input_image)
            /\ basename(output_path) =
                 StemOf(base) \o <<"_", "D", "R", "S", "B">>
                    \o (IF ExtOf(base) = <<>> THEN <<".", "p", "n", "g">> ELSE ExtOf(base))
            /\ args.input_image = <<"p", "h", "o", "t", "o", ".", "j", "p", "g">>
                 => output_path = <<"p", "h", "o", "t", "o", "_", "D", "R", "S", "B",
                                    ".", "j", "p", "g">>

\* C5 witness: a completed run on a/a (no extension, in a directory), no -o
C5_Witness ==
    /\ Completed
    /\ ~argv.o.some
    /\ args.input_image = <<"a", "/", "a">>
    /\ output_path = <<"a", "/", "a", "_", "D", "R", "S", "B", ".", "p", "n", "g">>

\* C6: when the input path does not exist, main prints one error naming the
\* path and returns 1, whatever the other flags and the --sizing value are;
\* it never gets past the existence check, so nothing is opened or written.
C6_MissingInput ==
    (Parsed /\ ~exists(args.input_image)) =>
        /\ pc \in {"exists", "exit"}
        /\ img = NoImg
        /\ fs = {}
        /\ Exited =>
            /\ ret = 1
            /\ stdout = <<Msg("not found", args.input_image, <<>>)>>

\* C6 witness: a missing input together with an invalid --sizing and flags
C6_Witness ==
    /\ Exited
    /\ Parsed
    /\ ~exists(args.input_image)
    /\ args.sizing = Some(S_0x10)
    /\ args.original /\ args.smallest
    /\ ret = 1

ErrorKinds == {"not found", "form", "positive", "processing"}

\* what the claim says of an invocation that has ended: 0 exactly when
\* process_image completed, else 1 with one error message and no status line
ExitContract ==
    /\ ret \in {0, 1}
    /\ ret = 0 <=>
        /\ stdout = <<Msg("saved", output_path, px)>>
        /\ exists(output_path)
        /\ FileAt(output_path).img = img
    /\ ret = 1 =>
        /\ Len(stdout) = 1
        /\ stdout[1].kind \in ErrorKinds
    /\ stderr = <<>>

Flipped == Parsed /\ Len(img.ops) >= 2

\* C8: after the two flips the source pixel (x, y) of a WxH image sits at
\* (W-1-x, H-1-y), a rotation by 180 degrees; flipping left-right first and
\* top-bottom second gives the same pixels; and the two flips are the first
\* two operations on every image that is saved, whatever the size mode is and
\* also when the source already has the target size.
C8_FlipsRotate180 ==
    /\ Flipped =>
        LET W == original_size[1]
            H == original_size[2]
            other == Transpose(Transpose(Open(original_size), FLIP_LEFT_RIGHT),
                               FLIP_TOP_BOTTOM)
        IN  /\ SizeAfter(img, 2) = original_size
            /\ \A x \in 0..(W - 1), y \in 0..(H - 1) :
                  /\ PixelAt(img, 2, W - 1 - x, H - 1 - y) = <<"src", x, y>>
                  /\ PixelAt(other, 2, x, y) = PixelAt(img, 2, x, y)
    /\ Completed =>
        /\ Len(Output.ops) >= 2
        /\ Output.ops[1].op = "transpose" /\ Output.ops[2].op = "transpose"
        /\ {Output.ops[1].arg[1], Output.ops[2].arg[1]}
              = {FLIP_TOP_BOTTOM, FLIP_LEFT_RIGHT}

\* C8 witness: a completed run whose custom size is the size of the 2x3
\* source, so the resize changes nothing and the saved corner pixel (0, 0)
\* off the crosshair is the source's opposite corner
C8_Witness ==
    /\ Completed
    /\ original_size = <<2, 3>>
    /\ custom_size = <<2, 3>>
    /\ Pixel(Output, 0, 0) = <<"src", 1, 2>>

\* the names of the operations applied to an image, in order
OpNames(im) == [k \in 1..Len(im.ops) |-> im.ops[k].op]

\* C9: every saved image was flipped, then resized (not under "original"),
\* then drawn on, so the crosshair is that of the final dimensions: with
\* (W, H) the saved size, row H \div 2 is black in every column 0..W-1, column
\* W \div 2 is black in every row 0..H-1, every other pixel is the one the
\* flipped and resampled image had, and the centre column is 288 for W = 576
\* and 150 for W = 301.
C9_CrosshairOnFinalSize ==
    Completed =>
        LET W == Size(Output)[1]
            H == Size(Output)[2]
            n == Len(Output.ops)
        IN  /\ OpNames(Output) =
                 IF custom_size = <<>> /\ size_mode = "original"
                 THEN <<"transpose", "transpose", "line", "line">>
                 ELSE <<"transpose", "transpose", "resize", "line", "line">>
            /\ \A x \in 0..(W - 1), y \in 0..(H - 1) :
                  Pixel(Output, x, y) =
                     IF x = W \div 2 \/ y = H \div 2
                     THEN BLACK
                     ELSE PixelAt(Output, n - 2, x, y)
            /\ W = 576 => \A y \in 0..(H - 1) :
                  Pixel(Output, 288, y) = BLACK /\ (y # H \div 2 => Pixel(Output, 287, y) # BLACK)
            /\ W = 301 => \A y \in 0..(H - 1) :
                  Pixel(Output, 150, y) = BLACK /\ (y # H \div 2 => Pixel(Output, 151, y) # BLACK)

\* C9 witness: a completed run with --sizing 301x2: centre column 150, and a
\* resampled pixel left of it
C9_Witness ==
    /\ Completed
    /\ custom_size = <<301, 2>>
    /\ Pixel(Output, 150, 0) = BLACK
    /\ Pixel(Output, 300, 1) = BLACK
    /\ Pixel(Output, 149, 0) = <<"lanczos", 149, 0>>

\* C10: a derived output path never equals the input path, so a run without
\* -o never writes over its source; the file at the input path is written
\* only when -o names the input path.
C10_DerivedNeverInput ==
    /\ (Parsed /\ ~argv.o.some /\ output_path # <<>>) =>
            output_path # args.input_image
    /\ (Parsed /\ exists(args.input_image)
            /\ FileAt(args.input_image).img.ops # <<>>) =>
            (argv.o.some /\ argv.o.s = args.input_image)

\* C10 witness: a completed run without -o on an input without extension
\* leaves the source as it was and writes beside it
C10_Witness ==
    /\ Completed
    /\ ~argv.o.some
    /\ args.input_image = <<"a", ".", "/", "a">>
    /\ FileAt(args.input_image).img.ops = <<>>
    /\ output_path # args.input_image
    /\ Output.ops # <<>>

====
